---- MODULE Spec2Model ----
(***************************************************************************)
(* MTG Deck Manager backend: the deck store (MongoDB collection "decks"    *)
(* behind Mongoose), MongoDeckRepository, DeckUseCases and DeckController. *)
(*                                                                         *)
(* Strings are sequences of one-character strings, so that trimming,       *)
(* title-casing and the regular expression built from a name are computed  *)
(* character by character as the code computes them.  Every request        *)
(* handler is a process; its steps are the points where the handler awaits *)
(* the storage engine (one read or one write of the collection per step).  *)
(* Spec runs one handler at a time (operations execute one after another), *)
(* SpecConc interleaves the steps of two handlers.                         *)
(***************************************************************************)
EXTENDS Integers, Sequences, FiniteSets, TLC

VARIABLES store, nextId, now, pc, call, out, resp

vars == <<store, nextId, now, pc, call, out, resp>>

(***************************************************************************)
(* Bounds of the model.                                                    *)
(***************************************************************************)
MaxDecks == 2      \* number of documents ever inserted (ObjectIds handed out)
MaxClock == 1      \* the millisecond clock takes the values 0..MaxClock
MaxListed == 3     \* number of decks in a collection that is listed

(***************************************************************************)
(* Program constants.                                                      *)
(***************************************************************************)
NameMaxLength == 100
DescriptionMaxLength == 500
StorageLocationMaxLength == 100
MaxColors == 5
DefaultPage == 1
DefaultLimit == 10
MaxLimit == 100

Procs == {"p1", "p2"}
SeqProcs == {"p1"}

(***************************************************************************)
(* Characters and strings.                                                 *)
(***************************************************************************)
toUpperCase(c) == IF c = "a" THEN "A" ELSE c
toLowerCase(c) == IF c = "A" THEN "a" ELSE c

\* word.toLowerCase(), character by character
LowerCase(s) == [i \in 1..Len(s) |-> toLowerCase(s[i])]

\* String.prototype.trim (the schema's `trim: true` setter, and validateDeck)
RECURSIVE trimStart(_)
trimStart(s) == IF s # <<>> /\ s[1] = " " THEN trimStart(Tail(s)) ELSE s

RECURSIVE trimEnd(_)
trimEnd(s) ==
    IF s # <<>> /\ s[Len(s)] = " " THEN trimEnd(SubSeq(s, 1, Len(s) - 1)) ELSE s

trim(s) == trimEnd(trimStart(s))

\* s.split(' '): the words between single spaces ("" splits into one empty word)
RECURSIVE split(_)
split(s) ==
    IF \A i \in 1..Len(s) : s[i] # " "
    THEN <<s>>
    ELSE LET k == CHOOSE i \in 1..Len(s) :
                      s[i] = " " /\ \A j \in 1..(i - 1) : s[j] # " "
         IN  <<SubSeq(s, 1, k - 1)>> \o split(SubSeq(s, k + 1, Len(s)))

\* words.join(' ')
RECURSIVE join(_)
join(ws) == IF Len(ws) = 1 THEN ws[1] ELSE ws[1] \o <<" ">> \o join(Tail(ws))

\* word.charAt(0).toUpperCase() + word.slice(1).toLowerCase()
Capitalize(word) ==
    IF word = <<>> THEN <<>>
    ELSE <<toUpperCase(word[1])>> \o LowerCase(Tail(word))

\* DeckSchema.pre('save'): this.name.split(' ').map(...).join(' ')
TitleCase(name) ==
    LET ws == split(name) IN join([i \in 1..Len(ws) |-> Capitalize(ws[i])])

(***************************************************************************)
(* new RegExp(`^${name}$`, 'i'): the name is the pattern, unescaped.  Over *)
(* the characters of the model the only one with a meaning in a pattern is *)
(* the quantifier "+": it repeats the character before it, and a pattern   *)
(* in which it has nothing to repeat is a SyntaxError.                     *)
(***************************************************************************)
RegExpCompiles(pattern) ==
    \A i \in 1..Len(pattern) :
        pattern[i] = "+" => (i > 1 /\ pattern[i - 1] # "+")

RECURSIVE RegExpTest(_, _)
RegExpTest(pattern, s) ==
    IF pattern = <<>> THEN s = <<>>
    ELSE IF s = <<>> \/ toLowerCase(pattern[1]) # toLowerCase(s[1]) THEN FALSE
    ELSE IF Len(pattern) >= 2 /\ pattern[2] = "+"
         THEN \/ RegExpTest(Tail(Tail(pattern)), Tail(s))
              \/ RegExpTest(pattern, Tail(s))
         ELSE RegExpTest(Tail(pattern), Tail(s))

(***************************************************************************)
(* Input sets of the requests.                                             *)
(***************************************************************************)
NameInputs ==
    { <<>>, <<" ">>, <<"a">>, <<"A">>, <<" ", "a">>, <<"a", "+">>, <<"+">>,
      <<"a", "A">> }
DescriptionInputs == { <<>>, <<"x">>, <<"y">>, <<" ", "x">> }
ColorsInputs == { <<>>, <<"R">>, <<"W", "U", "B", "R", "G", "C">> }
StorageLocationInputs == { <<>>, <<"s">> }

MagicColor == {"W", "U", "B", "R", "G", "C"}

\* ids: a positive number is a well-formed ObjectId, 0 is a string that is none
\* (the entity's default id '' included)
MalformedIds == {0}
ObjectIds == 1..MaxDecks
RequestIds == ObjectIds \cup MalformedIds
Clock == 0..MaxClock

\* the fields of a stored document the model follows
SchemaPaths == {"name", "description", "colors", "storageLocation"}
StringPaths == {"name", "description", "storageLocation"}
DeckFields == SchemaPaths \cup {"id", "createdAt", "updatedAt"}

\* a request that passes every check, with the given name
WellFormedRequest(n) ==
    [name |-> n, description |-> <<"x">>, colors |-> <<"R">>,
     storageLocation |-> <<"s">>]

\* create requests: every name with the other fields well-formed, one with each
\* other mandatory field empty, and one that carries id, createdAt and updatedAt
CreateDeckRequests ==
    { WellFormedRequest(n) : n \in NameInputs }
    \cup { [WellFormedRequest(<<"a">>) EXCEPT !.description = d] :
             d \in DescriptionInputs }
    \cup { [WellFormedRequest(<<"a">>) EXCEPT !.colors = c] : c \in ColorsInputs }
    \cup { [WellFormedRequest(<<"a">>) EXCEPT !.storageLocation = l] :
             l \in StorageLocationInputs }
    \cup { [id |-> i, createdAt |-> 0, updatedAt |-> 0]
             @@ WellFormedRequest(<<"a", "A">>) : i \in MalformedIds }

\* update requests: each field alone, a name together with a description, and
\* one that carries id and createdAt
UpdateDeckRequests ==
    { [name |-> n] : n \in NameInputs }
    \cup { [description |-> d] : d \in DescriptionInputs }
    \cup { [colors |-> c] : c \in ColorsInputs }
    \cup { [storageLocation |-> l] : l \in StorageLocationInputs }
    \cup { [name |-> <<"a", "A">>, description |-> <<"y">>] }
    \cup { [description |-> <<"y">>, id |-> i, createdAt |-> 0] :
             i \in MalformedIds }

(***************************************************************************)
(* Error messages: sequences of text pieces; the text of a name or of an   *)
(* id is spliced in where the template literal splices it.                 *)
(***************************************************************************)
MsgAlreadyExists(name) ==
    <<"Deck with name '">> \o name \o <<"' ", "already exists">>
MsgNotFound(id) == <<"Deck with id '", ToString(id), "' ", "not found">>
MsgRequired(what) == <<what, " is required">>
MsgFailedTo(what, cause) == <<"Failed to ", what, ": ">> \o cause
MsgInvalidRegExp(name) ==
    <<"Invalid regular expression: /^">> \o name \o <<"$/: Nothing to repeat">>
MsgValidationFailed == <<"Validation failed">>
MsgDuplicateKey == <<"E11000 duplicate key error collection">>
NoMsg == <<>>

\* error.message.includes(text)
includes(msg, text) == \E i \in 1..Len(msg) : msg[i] = text

NoDeck == [none |-> TRUE]

\* what an awaited call yields: a value, null, or a thrown Error
Value(deck) == [kind |-> "value", msg |-> NoMsg, data |-> deck]
Null == [kind |-> "null", msg |-> NoMsg, data |-> NoDeck]
Throw(msg) == [kind |-> "error", msg |-> msg, data |-> NoDeck]

(***************************************************************************)
(* DeckEntity                                                              *)
(***************************************************************************)
Truthy(obj, f) == f \in DOMAIN obj /\ obj[f] # <<>>

\* validateDeck with the storage location checked before the colors
validateDeckLocationFirst(e) ==
    IF ~Truthy(e, "name") \/ trim(e.name) = <<>>
        THEN MsgRequired("Deck name")
    ELSE IF ~Truthy(e, "description") \/ trim(e.description) = <<>>
        THEN MsgRequired("Deck description")
    ELSE IF ~Truthy(e, "storageLocation") \/ trim(e.storageLocation) = <<>>
        THEN MsgRequired("Storage location")
    ELSE IF ~Truthy(e, "colors")
        THEN <<"At least one color is required">>
    ELSE NoMsg

\* DeckEntity.validateDeck: the message of the first failed check, or NoMsg
validateDeck(e) ==
    IF ~Truthy(e, "name") \/ trim(e.name) = <<>>
        THEN MsgRequired("Deck name")
    ELSE IF ~Truthy(e, "description") \/ trim(e.description) = <<>>
        THEN MsgRequired("Deck description")
    ELSE IF ~Truthy(e, "colors")
        THEN <<"At least one color is required">>
    ELSE IF ~Truthy(e, "storageLocation") \/ trim(e.storageLocation) = <<>>
        THEN MsgRequired("Storage location")
    ELSE NoMsg

\* new DeckEntity(request.name, ...): id = '', createdAt = updatedAt = new Date()
DeckEntityNew(request, t) ==
    LET e == [f \in DeckFields |->
                 IF f = "id" THEN 0
                 ELSE IF f \in {"createdAt", "updatedAt"} THEN t
                 ELSE IF f \in DOMAIN request THEN request[f] ELSE <<>>]
    IN  IF validateDeck(e) # NoMsg THEN Throw(validateDeck(e)) ELSE Value(e)

\* DeckEntity.updateDeck(updates) at time t: Object.assign, updatedAt = new
\* Date(), then validateDeck; the outcome carries the object as the call left it
DeckEntityUpdateDeck(e, updates, t) ==
    LET assigned == [f \in DeckFields |->
                        IF f = "updatedAt" THEN t
                        ELSE IF f \in DOMAIN updates THEN updates[f] ELSE e[f]]
    IN  IF validateDeck(assigned) # NoMsg
        THEN [kind |-> "error", msg |-> validateDeck(assigned), data |-> assigned]
        ELSE Value(assigned)

(***************************************************************************)
(* DeckSchema: casting (the trim setters, strict mode) and the validators  *)
(***************************************************************************)
\* the schema paths of obj, strings trimmed; every other key is dropped
CastToSchema(obj) ==
    [f \in DOMAIN obj \cap SchemaPaths |->
        IF f \in StringPaths THEN trim(obj[f]) ELSE obj[f]]

PathValidAnyColors(f, v) ==
    CASE f = "name" -> v # <<>> /\ Len(v) <= NameMaxLength
      [] f = "description" -> v # <<>> /\ Len(v) <= DescriptionMaxLength
      [] f = "colors" -> /\ Len(v) > 0
                         /\ \A i \in 1..Len(v) : v[i] \in MagicColor
      [] f = "storageLocation" -> v # <<>> /\ Len(v) <= StorageLocationMaxLength
      [] OTHER -> TRUE

PathValid(f, v) ==
    CASE f = "name" -> v # <<>> /\ Len(v) <= NameMaxLength
      [] f = "description" -> v # <<>> /\ Len(v) <= DescriptionMaxLength
      [] f = "colors" -> /\ Len(v) > 0 /\ Len(v) <= MaxColors
                         /\ \A i \in 1..Len(v) : v[i] \in MagicColor
      [] f = "storageLocation" -> v # <<>> /\ Len(v) <= StorageLocationMaxLength
      [] OTHER -> TRUE

\* document.validate(): every required path present and valid
DocumentValid(doc) ==
    \A f \in SchemaPaths : f \in DOMAIN doc /\ PathValid(f, doc[f])

\* runValidators: true on an update: the paths the update sets
UpdateValid(upd) == \A f \in DOMAIN upd : PathValid(f, upd[f])

\* the unique index on name: a binary comparison of the stored strings
DuplicateKey(st, name, self) ==
    \E i \in DOMAIN st : i # self /\ st[i].name = name

(***************************************************************************)
(* MongoDeckRepository.  A write yields the call's outcome and the         *)
(* collection after it.                                                    *)
(***************************************************************************)
\* const { id, createdAt, updatedAt, ...cleanDeckData } = deck
CleanDeckData(deck) ==
    [f \in DOMAIN deck \ {"id", "createdAt", "updatedAt"} |-> deck[f]]

\* new DeckModel(data) and save() at time t with the generated _id: a createdAt
\* the data carries is kept by the timestamps plugin, otherwise it is the time
\* of the save; updatedAt of a new document equals its createdAt; pre('save')
\* title-cases the name
NewDocument(data, oid, t) ==
    LET doc == CastToSchema(data)
        created == IF "createdAt" \in DOMAIN data THEN data.createdAt ELSE t
    IN  [f \in DeckFields |->
            CASE f = "id" -> oid
              [] f \in {"createdAt", "updatedAt"} -> created
              [] f = "name" -> TitleCase(doc.name)
              [] OTHER -> doc[f]]

\* (mutant) the duplicate key error is not told apart from other failures
RepoCreateErrorUnmapped(code, name, cause) == MsgFailedTo("create deck", cause)

\* the catch of create: error.code === 11000 is the duplicate key error
RepoCreateError(code, name, cause) ==
    IF code = 11000 THEN MsgAlreadyExists(name)
    ELSE MsgFailedTo("create deck", cause)

RepoCreate(st, oid, t, deck) ==
    LET data == CleanDeckData(deck)
        saved == NewDocument(data, oid, t)
    IN  IF ~DocumentValid(CastToSchema(data))
        THEN [out |-> Throw(RepoCreateError(0, deck.name, MsgValidationFailed)),
              store |-> st]
        ELSE IF DuplicateKey(st, saved.name, oid)
        THEN [out |-> Throw(RepoCreateError(11000, deck.name, MsgDuplicateKey)),
              store |-> st]
        ELSE [out |-> Value(saved),
              store |-> [i \in DOMAIN st \cup {oid} |->
                            IF i = oid THEN saved ELSE st[i]]]

\* Types.ObjectId.isValid(id)
ObjectIdIsValid(id) == id \notin MalformedIds

\* (mutant) no isValid check: findById of a malformed id fails with a CastError
RepoFindByIdUnchecked(st, id) ==
    IF ~ObjectIdIsValid(id)
    THEN Throw(MsgFailedTo("find deck by id", <<"Cast to ObjectId failed">>))
    ELSE IF id \in DOMAIN st THEN Value(st[id]) ELSE Null

RepoFindById(st, id) ==
    IF ~ObjectIdIsValid(id) THEN Null
    ELSE IF id \in DOMAIN st THEN Value(st[id]) ELSE Null

\* DeckModel.findOne({ name: new RegExp(`^${name}$`, 'i') })
RepoFindByName(st, name) ==
    IF ~RegExpCompiles(name)
    THEN Throw(MsgFailedTo("find deck by name", MsgInvalidRegExp(name)))
    ELSE IF \E i \in DOMAIN st : RegExpTest(name, st[i].name)
    THEN Value(st[CHOOSE i \in DOMAIN st : RegExpTest(name, st[i].name)])
    ELSE Null

\* (mutant) createdAt and id of the request reach the stored document
UpdateDocumentKeepingAll(updates, t) ==
    LET set == CastToSchema(updates)
        kept == DOMAIN updates \cap {"id", "createdAt"}
    IN  [f \in DOMAIN set \cup kept \cup {"updatedAt"} |->
            IF f = "updatedAt" THEN t
            ELSE IF f \in kept THEN updates[f] ELSE set[f]]

\* the update document { ...updates, updatedAt: new Date() } as Mongoose sends
\* it: keys that are no schema path are dropped (strict), createdAt is removed
\* by the timestamps plugin, strings pass the trim setter
UpdateDocument(updates, t) ==
    LET set == CastToSchema(updates)
    IN  [f \in DOMAIN set \cup {"updatedAt"} |->
            IF f = "updatedAt" THEN t ELSE set[f]]

\* (mutant) the update replaces the document: paths it does not set are emptied
ApplyUpdateOverwriting(doc, upd) ==
    [f \in DOMAIN doc |->
        IF f \in DOMAIN upd THEN upd[f]
        ELSE IF f \in SchemaPaths THEN <<>> ELSE doc[f]]

\* (mutant) the update saves a copy of the deck read before other updates:
\* paths it does not set go back to the values the deck was created with
ApplyUpdateFromCreated(doc, upd) ==
    [f \in DOMAIN doc |->
        IF f \in DOMAIN upd THEN upd[f]
        ELSE IF f \in SchemaPaths \ {"name"} THEN WellFormedRequest(<<>>)[f]
        ELSE doc[f]]

\* findByIdAndUpdate(id, update, { new: true, runValidators: true }): no
\* save middleware runs, so the name is stored as cast
ApplyUpdate(doc, upd) ==
    [f \in DOMAIN doc |-> IF f \in DOMAIN upd THEN upd[f] ELSE doc[f]]

\* the catch of update
RepoUpdateError(code, name, cause) ==
    IF code = 11000 THEN MsgAlreadyExists(name)
    ELSE MsgFailedTo("update deck", cause)

RepoUpdate(st, id, updates, t) ==
    LET upd == UpdateDocument(updates, t)
    IN  IF ~ObjectIdIsValid(id) THEN [out |-> Null, store |-> st]
        ELSE IF ~UpdateValid(upd)
        THEN [out |-> Throw(RepoUpdateError(0, <<>>, MsgValidationFailed)),
              store |-> st]
        ELSE IF id \notin DOMAIN st THEN [out |-> Null, store |-> st]
        ELSE IF "name" \in DOMAIN upd /\ DuplicateKey(st, upd.name, id)
        THEN [out |-> Throw(RepoUpdateError(11000, updates.name, MsgDuplicateKey)),
              store |-> st]
        ELSE [out |-> Value(ApplyUpdate(st[id], upd)),
              store |-> [st EXCEPT ![id] = ApplyUpdate(@, upd)]]

\* (mutant) the delete reports success and removes nothing
RepoDeleteKeeping(st, id) ==
    IF ObjectIdIsValid(id) /\ id \in DOMAIN st
    THEN [out |-> Value(NoDeck), store |-> st]
    ELSE [out |-> Null, store |-> st]

\* findByIdAndDelete(id): the outcome is a value (true) or null (false)
RepoDelete(st, id) ==
    IF ObjectIdIsValid(id) /\ id \in DOMAIN st
    THEN [out |-> Value(NoDeck),
          store |-> [i \in DOMAIN st \ {id} |-> st[i]]]
    ELSE [out |-> Null, store |-> st]

(***************************************************************************)
(* Listing: GET /decks.  The query string is a record of the parameters    *)
(* that are present, each a text.  A listed deck carries, besides the      *)
(* fields above, the fields the filters read.                              *)
(***************************************************************************)
Digits == <<"0", "1", "2", "3", "4", "5", "6", "7", "8", "9">>
IsDigit(c) == \E d \in 1..10 : Digits[d] = c
DigitValue(c) == (CHOOSE d \in 1..10 : Digits[d] = c) - 1

\* the digits a text starts with, as a number (acc: the value read so far)
RECURSIVE ParseDigits(_, _)
ParseDigits(s, acc) ==
    IF s = <<>> \/ ~IsDigit(s[1]) THEN acc
    ELSE ParseDigits(Tail(s), 10 * acc + DigitValue(s[1]))

NaN == [nan |-> TRUE, n |-> 0]
Number(n) == [nan |-> FALSE, n |-> n]

\* parseInt(text): blanks skipped, an optional sign, then digits; NaN when no
\* digit follows (an absent parameter is undefined: NaN as well)
parseInt(q, key) ==
    IF key \notin DOMAIN q THEN NaN
    ELSE LET t == trimStart(q[key])
             signed == t # <<>> /\ t[1] \in {"-", "+"}
             body == IF signed THEN Tail(t) ELSE t
         IN  IF body = <<>> \/ ~IsDigit(body[1]) THEN NaN
             ELSE IF signed /\ t[1] = "-" THEN Number(0 - ParseDigits(body, 0))
             ELSE Number(ParseDigits(body, 0))

\* value || fallback for a number: NaN and 0 are falsy
NumberOr(v, fallback) == IF v.nan \/ v.n = 0 THEN fallback ELSE v.n

\* value || fallback for a text: undefined and '' are falsy
TextOr(q, key, fallback) == IF Truthy(q, key) THEN q[key] ELSE fallback

FilterKeys ==
    {"deckType", "gameStage", "tierRating", "isComplete", "hasCardSleeves",
     "storageLocation"}
BooleanFilterKeys == {"isComplete", "hasCardSleeves"}

\* DeckController.getAllDecks: the filters object; a key that is absent here is
\* undefined there
ControllerFilters(q) ==
    [k \in { k \in FilterKeys \cap DOMAIN q :
               k \in BooleanFilterKeys => q[k] # <<>> } |->
        IF k \in BooleanFilterKeys THEN q[k] = <<"true">> ELSE q[k]]

\* the pagination object if a limit above the maximum were cut to the maximum
ControllerPaginationCuttingLimit(q) ==
    LET page == NumberOr(parseInt(q, "page"), DefaultPage)
        limit == NumberOr(parseInt(q, "limit"), DefaultLimit)
    IN  [page |-> IF page < 1 THEN DefaultPage ELSE page,
         limit |-> IF limit < 1 THEN DefaultLimit
                   ELSE IF limit > MaxLimit THEN MaxLimit ELSE limit,
         sortBy |-> TextOr(q, "sortBy", <<"createdAt">>),
         sortOrder |-> TextOr(q, "sortOrder", <<"desc">>)]

\* DeckController.getAllDecks: the pagination object, after its clamping
ControllerPagination(q) ==
    LET page == NumberOr(parseInt(q, "page"), DefaultPage)
        limit == NumberOr(parseInt(q, "limit"), DefaultLimit)
    IN  [page |-> IF page < 1 THEN DefaultPage ELSE page,
         limit |-> IF limit < 1 \/ limit > MaxLimit THEN DefaultLimit ELSE limit,
         sortBy |-> TextOr(q, "sortBy", <<"createdAt">>),
         sortOrder |-> TextOr(q, "sortOrder", <<"desc">>)]

\* new RegExp(text, 'i') tested against s: the pattern matches some part of s
RegExpSearch(pattern, s) ==
    \E i \in 1..(Len(s) + 1) : \E j \in (i - 1)..Len(s) :
        RegExpTest(pattern, SubSeq(s, i, j))

\* buildFilterQuery: the filters that are applied (a boolean when it is not
\* undefined, a text when it is truthy)
AppliedFilters(filters) ==
    { k \in DOMAIN filters : k \notin BooleanFilterKeys => filters[k] # <<>> }

\* a deck matches the query buildFilterQuery builds
MatchesQuery(deck, filters) ==
    \A k \in AppliedFilters(filters) :
        IF k = "storageLocation"
        THEN RegExpSearch(filters[k], deck[k])
        ELSE deck[k] = filters[k]

\* the sort key of a deck: sortBy names the field (the timestamps, here)
SortKey(deck, sortBy) ==
    CASE sortBy = <<"createdAt">> -> deck.createdAt
      [] sortBy = <<"updatedAt">> -> deck.updatedAt

\* .sort({ [sortField]: sortOrder }): the orders find may return the matching
\* decks in; the order of decks with equal keys is not determined
SortedOrders(st, ids, sortBy, ascending) ==
    { o \in [1..Cardinality(ids) -> ids] :
        /\ \A i \in DOMAIN o : \A j \in DOMAIN o : i # j => o[i] # o[j]
        /\ \A i \in DOMAIN o : \A j \in DOMAIN o :
              i < j => IF ascending
                       THEN SortKey(st[o[i]], sortBy) <= SortKey(st[o[j]], sortBy)
                       ELSE SortKey(st[o[i]], sortBy) >= SortKey(st[o[j]], sortBy) }

\* a window that starts one document late
SkipLimitFromNext(seq, skip, limit) ==
    SubSeq(seq, skip + 2, IF skip + 1 + limit < Len(seq) THEN skip + 1 + limit ELSE Len(seq))

\* .skip(skip).limit(limit)
SkipLimit(seq, skip, limit) ==
    SubSeq(seq, skip + 1, IF skip + limit < Len(seq) THEN skip + limit ELSE Len(seq))

\* Math.floor(total / limit), the quotient without rounding up
FloorDiv(total, limit) == total \div limit

\* Math.ceil(total / limit)
CeilDiv(total, limit) == (total + limit - 1) \div limit

\* MongoDeckRepository.findAll with the documents found in the order `order`
RepoFindAll(st, filters, pagination, order) ==
    LET page == IF pagination.page = 0 THEN DefaultPage ELSE pagination.page
        limit == IF pagination.limit = 0 THEN DefaultLimit ELSE pagination.limit
        skip == (page - 1) * limit
        total == Cardinality({ i \in DOMAIN st : MatchesQuery(st[i], filters) })
    IN  [data |-> SkipLimit([i \in DOMAIN order |-> st[order[i]]], skip, limit),
         total |-> total, page |-> page, limit |-> limit,
         totalPages |-> CeilDiv(total, limit)]

\* DeckModel.countDocuments(query)
CountDocuments(st, filters) ==
    Cardinality({ i \in DOMAIN st : MatchesQuery(st[i], filters) })

\* the PaginatedResult findAll builds from the results of its two queries
PaginatedResult(documents, total, pagination) ==
    LET page == IF pagination.page = 0 THEN DefaultPage ELSE pagination.page
        limit == IF pagination.limit = 0 THEN DefaultLimit ELSE pagination.limit
    IN  [data |-> documents, total |-> total, page |-> page, limit |-> limit,
         totalPages |-> CeilDiv(total, limit)]

(***************************************************************************)
(* DeckController: the response for the outcome of the use case.           *)
(***************************************************************************)
Response(status, error, message, data) ==
    [status |-> status, error |-> error, message |-> message, data |-> data]

InternalError == Response(500, "INTERNAL_ERROR", <<"Internal server error">>, NoDeck)

ControllerCreateDeck(o) ==
    IF o.kind = "value"
    THEN Response(201, "", <<"Deck created successfully">>, o.data)
    ELSE IF includes(o.msg, "already exists")
    THEN Response(409, "CONFLICT", o.msg, NoDeck)
    ELSE InternalError

\* an update handler that passes the message of an unexpected failure on
ControllerUpdateDeckLeaking(id, o) ==
    IF o.kind = "value"
    THEN Response(200, "", <<"Deck updated successfully">>, o.data)
    ELSE IF o.kind = "null"
    THEN Response(404, "NOT_FOUND", MsgNotFound(id), NoDeck)
    ELSE IF includes(o.msg, "not found")
    THEN Response(404, "NOT_FOUND", o.msg, NoDeck)
    ELSE IF includes(o.msg, "already exists")
    THEN Response(409, "CONFLICT", o.msg, NoDeck)
    ELSE Response(500, "INTERNAL_ERROR", o.msg, NoDeck)

ControllerUpdateDeck(id, o) ==
    IF o.kind = "value"
    THEN Response(200, "", <<"Deck updated successfully">>, o.data)
    ELSE IF o.kind = "null"
    THEN Response(404, "NOT_FOUND", MsgNotFound(id), NoDeck)
    ELSE IF includes(o.msg, "not found")
    THEN Response(404, "NOT_FOUND", o.msg, NoDeck)
    ELSE IF includes(o.msg, "already exists")
    THEN Response(409, "CONFLICT", o.msg, NoDeck)
    ELSE InternalError

\* a delete handler that reports success also when delete returned false
ControllerDeleteDeckAlwaysOk(id, o) ==
    IF o.kind = "value" \/ o.kind = "null"
    THEN Response(200, "", <<"Deck deleted successfully">>, NoDeck)
    ELSE IF includes(o.msg, "not found")
    THEN Response(404, "NOT_FOUND", o.msg, NoDeck)
    ELSE InternalError

ControllerDeleteDeck(id, o) ==
    IF o.kind = "value"
    THEN Response(200, "", <<"Deck deleted successfully">>, NoDeck)
    ELSE IF o.kind = "null"
    THEN Response(404, "NOT_FOUND", MsgNotFound(id), NoDeck)
    ELSE IF includes(o.msg, "not found")
    THEN Response(404, "NOT_FOUND", o.msg, NoDeck)
    ELSE InternalError

ControllerGetDeckById(id, o) ==
    IF o.kind = "value"
    THEN Response(200, "", NoMsg, o.data)
    ELSE IF o.kind = "null"
    THEN Response(404, "NOT_FOUND", MsgNotFound(id), NoDeck)
    ELSE InternalError

\* DeckController.getAllDecks: 200 with the page and the pagination it echoes
ControllerGetAllDecks(o) ==
    IF o.kind = "value" THEN Response(200, "", NoMsg, o.data) ELSE InternalError

\* searchDecks, getIncompleteDecks, getDecksByLocation: 200 with the decks and
\* their count
ControllerDeckList(o) ==
    IF o.kind = "value"
    THEN Response(200, "", NoMsg, [data |-> o.data, count |-> Len(o.data)])
    ELSE InternalError

(***************************************************************************)
(* The request handlers.  pc[p] is the storage call handler p awaits,      *)
(* call[p] its request, out[p] the outcome of the use case and resp[p] the *)
(* response the controller sent.                                           *)
(***************************************************************************)
NoCall == [op |-> "none"]
NoOut == [kind |-> "none", msg |-> NoMsg, data |-> NoDeck]
NoResp == Response(0, "", NoMsg, NoDeck)

Init ==
    /\ store = [i \in {} |-> NoDeck]
    /\ nextId = 1
    /\ now = 0
    /\ pc = [p \in Procs |-> "idle"]
    /\ call = [p \in Procs |-> NoCall]
    /\ out = [p \in Procs |-> NoOut]
    /\ resp = [p \in Procs |-> NoResp]

\* handler p goes on to await the storage call `label`
Await(p, label, c) ==
    /\ pc' = [pc EXCEPT ![p] = label]
    /\ call' = [call EXCEPT ![p] = c]
    /\ UNCHANGED <<out, resp>>

\* a handler that sends its response and goes on instead of returning
RespondWithoutReturn(p, label, c, o, r) ==
    /\ pc' = pc
    /\ call' = [call EXCEPT ![p] = [at |-> label] @@ c]
    /\ out' = [out EXCEPT ![p] = o]
    /\ resp' = [resp EXCEPT ![p] = r]

\* handler p ends at the storage call `label` with outcome o and response r
Respond(p, label, c, o, r) ==
    /\ pc' = [pc EXCEPT ![p] = "done"]
    /\ call' = [call EXCEPT ![p] = [at |-> label] @@ c]
    /\ out' = [out EXCEPT ![p] = o]
    /\ resp' = [resp EXCEPT ![p] = r]

\* POST /decks: the controller's check, findByName, new DeckEntity
CreateDeck(p, request) ==
    /\ pc[p] = "idle"
    /\ nextId + Cardinality({q \in Procs : pc[q] = "createSave"}) <= MaxDecks
    /\ LET c == [op |-> "create", req |-> request]
           existingDeck == RepoFindByName(store, request.name)
           deckEntity == DeckEntityNew(request, now)
       IN  IF ~Truthy(request, "name") \/ ~Truthy(request, "description")
           THEN Respond(p, "controller", c, NoOut,
                        Response(400, "VALIDATION_ERROR",
                                 <<"Name and description are required">>, NoDeck))
           ELSE IF existingDeck.kind = "error"
           THEN Respond(p, "findByName", c, Throw(existingDeck.msg),
                        ControllerCreateDeck(Throw(existingDeck.msg)))
           ELSE IF existingDeck.kind = "value"
           THEN Respond(p, "findByName", c, Throw(MsgAlreadyExists(request.name)),
                        ControllerCreateDeck(Throw(MsgAlreadyExists(request.name))))
           ELSE IF deckEntity.kind = "error"
           THEN Respond(p, "entity", c, deckEntity, ControllerCreateDeck(deckEntity))
           ELSE Await(p, "createSave", [entity |-> deckEntity.data] @@ c)
    /\ UNCHANGED <<store, nextId, now>>

\* deckRepository.create(deckEntity)
CreateSave(p) ==
    /\ pc[p] = "createSave"
    /\ LET res == RepoCreate(store, nextId, now, call[p].entity)
       IN  /\ store' = res.store
           /\ nextId' = IF res.out.kind = "value" THEN nextId + 1 ELSE nextId
           /\ Respond(p, "createSave", call[p], res.out, ControllerCreateDeck(res.out))
    /\ UNCHANGED now

\* the use case's check of findById's result
RequireExisting(existingDeck, id) ==
    IF existingDeck.kind = "null" THEN Throw(MsgNotFound(id)) ELSE existingDeck

\* PUT /decks/:id: findById and the decision whether the name is re-checked
UpdateDeck(p, id, request) ==
    /\ pc[p] = "idle"
    /\ LET c == [op |-> "update", id |-> id, req |-> request]
           existingDeck == RequireExisting(RepoFindById(store, id), id)
       IN  IF existingDeck.kind = "error"
           THEN Respond(p, "findById", c, existingDeck,
                        ControllerUpdateDeck(id, existingDeck))
           ELSE IF Truthy(request, "name") /\ request.name # existingDeck.data.name
           THEN Await(p, "updateFindByName", c)
           ELSE Await(p, "updateWrite", c)
    /\ UNCHANGED <<store, nextId, now>>

UpdateFindByName(p) ==
    /\ pc[p] = "updateFindByName"
    /\ LET name == call[p].req.name
           deckWithSameName == RepoFindByName(store, name)
       IN  IF deckWithSameName.kind = "error"
           THEN Respond(p, "findByName", call[p], Throw(deckWithSameName.msg),
                        ControllerUpdateDeck(call[p].id, Throw(deckWithSameName.msg)))
           ELSE IF deckWithSameName.kind = "value"
           THEN Respond(p, "findByName", call[p], Throw(MsgAlreadyExists(name)),
                        ControllerUpdateDeck(call[p].id, Throw(MsgAlreadyExists(name))))
           ELSE Await(p, "updateWrite", call[p])
    /\ UNCHANGED <<store, nextId, now>>

\* deckRepository.update(id, request)
UpdateWrite(p) ==
    /\ pc[p] = "updateWrite"
    /\ LET res == RepoUpdate(store, call[p].id, call[p].req, now)
       IN  /\ store' = res.store
           /\ Respond(p, "updateWrite", call[p], res.out,
                      ControllerUpdateDeck(call[p].id, res.out))
    /\ UNCHANGED <<nextId, now>>

\* DELETE /decks/:id: findById
DeleteDeck(p, id) ==
    /\ pc[p] = "idle"
    /\ LET c == [op |-> "delete", id |-> id]
           existingDeck == RequireExisting(RepoFindById(store, id), id)
       IN  IF existingDeck.kind = "error"
           THEN Respond(p, "findById", c, existingDeck,
                        ControllerDeleteDeck(id, existingDeck))
           ELSE Await(p, "deleteWrite", c)
    /\ UNCHANGED <<store, nextId, now>>

\* deckRepository.delete(id)
DeleteWrite(p) ==
    /\ pc[p] = "deleteWrite"
    /\ LET res == RepoDelete(store, call[p].id)
       IN  /\ store' = res.store
           /\ Respond(p, "deleteWrite", call[p], res.out,
                      ControllerDeleteDeck(call[p].id, res.out))
    /\ UNCHANGED <<nextId, now>>

\* GET /decks/:id: findById
GetDeckById(p, id) ==
    /\ pc[p] = "idle"
    /\ LET c == [op |-> "get", id |-> id]
           deck == RepoFindById(store, id)
       IN  Respond(p, "findById", c, deck, ControllerGetDeckById(id, deck))
    /\ UNCHANGED <<store, nextId, now>>

\* GET /decks: the controller builds filters and pagination, findAll runs the
\* find (in one of the orders the sort allows) and the count
GetAllDecks(p, query) ==
    /\ pc[p] = "idle"
    /\ LET c == [op |-> "list", query |-> query]
           filters == ControllerFilters(query)
           pagination == ControllerPagination(query)
           matching == { i \in DOMAIN store : MatchesQuery(store[i], filters) }
       IN  IF Truthy(filters, "storageLocation")
              /\ ~RegExpCompiles(filters.storageLocation)
           THEN LET o == Throw(MsgFailedTo("find decks",
                                   MsgInvalidRegExp(filters.storageLocation)))
                IN  Respond(p, "findAll", c, o, ControllerGetAllDecks(o))
           ELSE \E order \in SortedOrders(store, matching, pagination.sortBy,
                                          pagination.sortOrder = <<"asc">>) :
                    LET o == Value(RepoFindAll(store, filters, pagination, order))
                    IN  Respond(p, "findAll", c, o, ControllerGetAllDecks(o))
    /\ UNCHANGED <<store, nextId, now>>

\* DeckModel.find(query) without a sort: the documents that satisfy the query,
\* in an order the storage engine chooses
FoundOrders(st, ids) ==
    { [i \in DOMAIN o |-> st[o[i]]] :
        o \in { f \in [1..Cardinality(ids) -> ids] :
                  \A i \in DOMAIN f : \A j \in DOMAIN f : i # j => f[i] # f[j] } }

\* MongoDeckRepository.findByStorageLocation
RepoFindByStorageLocation(st, location) ==
    IF ~RegExpCompiles(location)
    THEN { Throw(MsgFailedTo("find decks by storage location",
                             MsgInvalidRegExp(location))) }
    ELSE { Value(found) :
             found \in FoundOrders(st, { i \in DOMAIN st :
                                           RegExpSearch(location, st[i].storageLocation) }) }

\* GET /decks/location/:location
GetDecksByLocation(p, location) ==
    /\ pc[p] = "idle"
    /\ \E o \in RepoFindByStorageLocation(store, location) :
          Respond(p, "findByStorageLocation", [op |-> "location", location |-> location],
                  o, ControllerDeckList(o))
    /\ UNCHANGED <<store, nextId, now>>

\* the response is out; the handler's promise settles
Finish(p) ==
    /\ pc[p] = "done"
    /\ pc' = [pc EXCEPT ![p] = "idle"]
    /\ call' = [call EXCEPT ![p] = NoCall]
    /\ out' = [out EXCEPT ![p] = NoOut]
    /\ resp' = [resp EXCEPT ![p] = NoResp]
    /\ UNCHANGED <<store, nextId, now>>

\* the clock advances
Tick ==
    /\ now < MaxClock
    /\ now' = now + 1
    /\ UNCHANGED <<store, nextId, pc, call, out, resp>>

Handler(p, creates, updates) ==
    \/ \E request \in creates : CreateDeck(p, request)
    \/ CreateSave(p)
    \/ \E id \in RequestIds, request \in updates : UpdateDeck(p, id, request)
    \/ UpdateFindByName(p)
    \/ UpdateWrite(p)
    \/ \E id \in RequestIds : DeleteDeck(p, id)
    \/ DeleteWrite(p)
    \/ \E id \in RequestIds : GetDeckById(p, id)
    \/ Finish(p)

\* one request at a time: each operation runs to its response before the next
Next == Tick \/ \E p \in SeqProcs : Handler(p, CreateDeckRequests, UpdateDeckRequests)

Spec == Init /\ [][Next]_vars

\* two requests in flight within one reading of the clock, their storage calls
\* interleaved; the requests are well-formed ones that differ in the name (and
\* one that leaves the name alone)
ConcNameInputs == { <<"a">>, <<"A">>, <<" ", "a">>, <<"a", "+">> }
ConcCreateDeckRequests == { WellFormedRequest(n) : n \in ConcNameInputs }
ConcUpdateDeckRequests ==
    { [name |-> n] : n \in ConcNameInputs } \cup { [description |-> <<"y">>] }

NextConc ==
    \E p \in Procs : Handler(p, ConcCreateDeckRequests, ConcUpdateDeckRequests)

SpecConc == Init /\ [][NextConc]_vars

\* two requests in flight that update and delete the same decks: updates that
\* set different fields, one that fails validation and one that renames
RaceCreateDeckRequests == { WellFormedRequest(n) : n \in { <<"a">>, <<"a", "A">> } }
RaceUpdateDeckRequests ==
    { [description |-> <<"y">>], [storageLocation |-> <<"t">>],
      [description |-> <<"x">>], [colors |-> <<>>], [name |-> <<"a">>] }

NextRace ==
    \E p \in Procs : Handler(p, RaceCreateDeckRequests, RaceUpdateDeckRequests)

SpecRace == Init /\ [][NextRace]_vars

(***************************************************************************)
(* GET /decks beside writes.  findAll awaits Promise.all of find and       *)
(* countDocuments: two queries, which the storage engine serves one after  *)
(* the other in either order, and between which a write of another request *)
(* may be applied.  call[p].seen is the number of decks that satisfied the  *)
(* query when find read its page.                                          *)
(***************************************************************************)
\* find is served first
FindAllFind(p, query) ==
    /\ pc[p] = "idle"
    /\ LET filters == ControllerFilters(query)
           pagination == ControllerPagination(query)
           matching == { i \in DOMAIN store : MatchesQuery(store[i], filters) }
       IN  \E order \in SortedOrders(store, matching, pagination.sortBy,
                                      pagination.sortOrder = <<"asc">>) :
               Await(p, "findAllCount",
                     [op |-> "list", query |-> query, seen |-> Cardinality(matching),
                      documents |-> RepoFindAll(store, filters, pagination, order).data])
    /\ UNCHANGED <<store, nextId, now>>

\* countDocuments is served after find
FindAllCount(p) ==
    /\ pc[p] = "findAllCount"
    /\ LET query == call[p].query
           total == CountDocuments(store, ControllerFilters(query))
           o == Value(PaginatedResult(call[p].documents, total,
                                      ControllerPagination(query)))
       IN  Respond(p, "findAll", call[p], o, ControllerGetAllDecks(o))
    /\ UNCHANGED <<store, nextId, now>>

\* countDocuments is served first
FindAllCountFirst(p, query) ==
    /\ pc[p] = "idle"
    /\ Await(p, "findAllFind",
             [op |-> "list", query |-> query,
              counted |-> CountDocuments(store, ControllerFilters(query))])
    /\ UNCHANGED <<store, nextId, now>>

\* find is served after countDocuments
FindAllFindLast(p) ==
    /\ pc[p] = "findAllFind"
    /\ LET query == call[p].query
           filters == ControllerFilters(query)
           pagination == ControllerPagination(query)
           matching == { i \in DOMAIN store : MatchesQuery(store[i], filters) }
       IN  \E order \in SortedOrders(store, matching, pagination.sortBy,
                                      pagination.sortOrder = <<"asc">>) :
               LET o == Value(PaginatedResult(
                                  RepoFindAll(store, filters, pagination, order).data,
                                  call[p].counted, pagination))
               IN  Respond(p, "findAll", [seen |-> Cardinality(matching)] @@ call[p],
                           o, ControllerGetAllDecks(o))
    /\ UNCHANGED <<store, nextId, now>>

\* the queries of the listings that run beside writes: no filter
RaceQueries ==
    { [k \in {} |-> <<>>], [limit |-> <<"1">>],
      [page |-> <<"2">>, limit |-> <<"1">>] }

NextListRace ==
    \E p \in Procs :
        \/ \E request \in RaceCreateDeckRequests : CreateDeck(p, request)
        \/ CreateSave(p)
        \/ \E id \in ObjectIds : DeleteDeck(p, id)
        \/ DeleteWrite(p)
        \/ \E query \in RaceQueries : FindAllFind(p, query)
        \/ FindAllCount(p)
        \/ \E query \in RaceQueries : FindAllCountFirst(p, query)
        \/ FindAllFindLast(p)
        \/ Finish(p)

SpecListRace == Init /\ [][NextListRace]_vars

\* one request at a time, with decks renamed to a name whose text is the words
\* 'not found' (one piece of text) and with updates that fail validation
NameNotFound == <<"not found">>
RenameCreateDeckRequests == { WellFormedRequest(n) : n \in { <<"a">>, <<"a", "A">> } }
RenameUpdateDeckRequests ==
    { [name |-> NameNotFound], [name |-> <<"a">>], [name |-> <<>>],
      [colors |-> <<>>], [description |-> <<"y">>] }

NextRename ==
    \E p \in SeqProcs : Handler(p, RenameCreateDeckRequests, RenameUpdateDeckRequests)

SpecRename == Init /\ [][NextRename]_vars

(***************************************************************************)
(* The entity on its own: a caller constructs a DeckEntity from arguments  *)
(* of which any may be missing, empty or blank, and calls updateDeck on    *)
(* the object it holds; out[p].data is that object, out[p].kind and        *)
(* out[p].msg the outcome of the last call.                                *)
(***************************************************************************)
EntityTexts == { <<>>, <<" ">>, <<"x">> }
EntityColors == { <<>>, <<"R">> }

\* the constructor's arguments: a field that is not in the record is undefined
EntityArguments ==
    UNION { { a \in [fs -> EntityTexts \cup EntityColors] :
                \A f \in fs : a[f] \in (IF f = "colors" THEN EntityColors
                                         ELSE EntityTexts) } :
            fs \in SUBSET SchemaPaths }

EntityUpdates ==
    { u \in EntityArguments : Cardinality(DOMAIN u) = 1 }
    \cup { [description |-> <<"y">>], [name |-> <<"y">>, colors |-> <<>>] }

ConstructDeckEntity(p, arguments) ==
    /\ pc[p] = "idle"
    /\ pc' = [pc EXCEPT ![p] = "held"]
    /\ call' = [call EXCEPT ![p] = [op |-> "new", req |-> arguments]]
    /\ out' = [out EXCEPT ![p] = DeckEntityNew(arguments, now)]
    /\ UNCHANGED <<store, nextId, now, resp>>

EntityUpdateDeck(p, updates) ==
    /\ pc[p] = "held"
    /\ out[p].data # NoDeck
    /\ call' = [call EXCEPT ![p] = [op |-> "updateDeck", req |-> updates]]
    /\ out' = [out EXCEPT ![p] = DeckEntityUpdateDeck(out[p].data, updates, now)]
    /\ UNCHANGED <<store, nextId, now, pc, resp>>

\* the caller lets go of the object
ReleaseDeckEntity(p) ==
    /\ pc[p] = "held"
    /\ pc' = [pc EXCEPT ![p] = "idle"]
    /\ call' = [call EXCEPT ![p] = NoCall]
    /\ out' = [out EXCEPT ![p] = NoOut]
    /\ UNCHANGED <<store, nextId, now, resp>>

NextEntity ==
    \/ Tick
    \/ \E p \in SeqProcs :
          \/ \E arguments \in EntityArguments : ConstructDeckEntity(p, arguments)
          \/ \E updates \in EntityUpdates : EntityUpdateDeck(p, updates)
          \/ ReleaseDeckEntity(p)

SpecEntity == Init /\ [][NextEntity]_vars

(***************************************************************************)
(* Listing a collection.  The collection holds up to MaxListed decks with  *)
(* different names; a deck is the plain deck, with other timestamps or     *)
(* with two of the fields the filters read changed.                        *)
(***************************************************************************)
ListedIds == 1..MaxListed

\* "A", "Aa", "Aaa", ...: title-cased names, different for different ids
ListedName(id) == [i \in 1..id |-> IF i = 1 THEN "A" ELSE "a"]

PlainDeck(id) ==
    [name |-> ListedName(id), description |-> <<"x">>, colors |-> <<"R">>,
     storageLocation |-> <<"s", "a">>, id |-> id, createdAt |-> 0, updatedAt |-> 0,
     deckType |-> <<"AGGRO">>, gameStage |-> <<"EARLY">>, tierRating |-> <<"S">>,
     isComplete |-> FALSE, hasCardSleeves |-> FALSE]

\* createdAt and updatedAt of a plain listed deck
ListedTimes == { <<0, 0>>, <<1, 2>> }

ListedDecks(id) ==
    { [PlainDeck(id) EXCEPT !.createdAt = cu[1], !.updatedAt = cu[2]] :
        cu \in ListedTimes }
    \cup { [PlainDeck(id) EXCEPT !.deckType = <<"COMBO">>, !.isComplete = TRUE,
                                 !.updatedAt = 1],
           [PlainDeck(id) EXCEPT !.gameStage = <<"MID">>, !.hasCardSleeves = TRUE],
           [PlainDeck(id) EXCEPT !.tierRating = <<"A">>,
                                 !.storageLocation = <<"a", "+">>] }

ListedCollections ==
    UNION { { st \in [ids -> UNION { ListedDecks(i) : i \in ids }] :
                \A i \in ids : st[i].id = i } : ids \in SUBSET ListedIds }

\* the query strings: the texts of one or two filter parameters, and the texts
\* of the pagination parameters
FilterTexts(k) ==
    CASE k = "deckType" -> { <<"AGGRO">>, <<"COMBO">> }
      [] k = "gameStage" -> { <<"EARLY">>, <<"MID">> }
      [] k = "tierRating" -> { <<"S">>, <<"A">> }
      [] k \in BooleanFilterKeys -> { <<"true">>, <<"false">>, <<>> }
      [] k = "storageLocation" ->
             { <<"A">>, <<"s">>, <<"+">>, <<"a", "+">>, <<>> }

\* the texts used when two parameters are given together
PairedFilterTexts(k) ==
    CASE k = "deckType" -> { <<"COMBO">> }
      [] k = "gameStage" -> { <<"MID">> }
      [] k = "tierRating" -> { <<"A">> }
      [] k \in BooleanFilterKeys -> { <<"true">>, <<"false">> }
      [] k = "storageLocation" -> { <<"A">> }

FilterQueries ==
    { [k \in {} |-> <<>>] }
    \cup UNION { { [k \in {key} |-> t] : t \in FilterTexts(key) } : key \in FilterKeys }
    \cup UNION { { q \in [ks -> UNION { PairedFilterTexts(k) : k \in ks }] :
                     \A k \in ks : q[k] \in PairedFilterTexts(k) } :
                 ks \in { ks \in SUBSET FilterKeys : Cardinality(ks) = 2 } }

PageTexts == { <<"0">>, <<"-", "1">>, <<"1">>, <<"2">>, <<"3">>, <<"x">>, <<"2", "x">> }
LimitTexts ==
    { <<"0">>, <<"-", "1">>, <<"1">>, <<"2">>, <<"1", "0", "0">>,
      <<"1", "0", "1">>, <<"x">> }
SortTexts ==
    { [sortBy |-> <<"createdAt">>, sortOrder |-> <<"asc">>],
      [sortBy |-> <<"updatedAt">>, sortOrder |-> <<"desc">>],
      [sortBy |-> <<"updatedAt">>, sortOrder |-> <<"asc">>],
      [sortBy |-> <<"updatedAt">>, sortOrder |-> <<"ASC">>],
      [sortOrder |-> <<"asc">>],
      [sortBy |-> <<>>, sortOrder |-> <<>>] }

PaginationQueries ==
    { [page |-> pg, limit |-> l] : pg \in PageTexts, l \in {<<"1">>, <<"2">>} }
    \cup { [limit |-> l] : l \in LimitTexts }
    \cup { [page |-> <<"2">>, limit |-> l] : l \in LimitTexts }
    \cup SortTexts
    \cup { [page |-> <<"2">>, limit |-> <<"1">>] @@ srt : srt \in SortTexts }
    \cup { [isComplete |-> <<"false">>, page |-> pg, limit |-> <<"1">>] :
             pg \in PageTexts }

Queries == FilterQueries \cup PaginationQueries

\* the :location path parameters (never empty: the route would not match)
Locations == FilterTexts("storageLocation") \ { <<>> }

InitList ==
    /\ store \in ListedCollections
    /\ nextId = MaxListed + 1
    /\ now = MaxClock
    /\ pc = [p \in Procs |-> "idle"]
    /\ call = [p \in Procs |-> NoCall]
    /\ out = [p \in Procs |-> NoOut]
    /\ resp = [p \in Procs |-> NoResp]

NextList ==
    \E p \in SeqProcs :
        \/ \E query \in Queries : GetAllDecks(p, query)
        \/ \E location \in Locations : GetDecksByLocation(p, location)
        \/ Finish(p)

SpecList == InitList /\ [][NextList]_vars

(***************************************************************************)
(* Properties.                                                             *)
(***************************************************************************)
\* equal when compared case-insensitively
EqualIgnoringCase(s, t) == LowerCase(s) = LowerCase(t)

\* handler p sends its response in this step
Responds(p) == pc[p] # "done" /\ pc'[p] = "done"

\* C1: with the operations executed one after another, no two distinct stored
\* decks ever have names that are equal case-insensitively.
C1_NamesUniqueIgnoringCase ==
    \A i \in DOMAIN store : \A j \in DOMAIN store :
        i # j => ~EqualIgnoringCase(store[i].name, store[j].name)

\* C2: under any interleaving of createDeck and updateDeck requests, the
\* lower-cased names of the stored decks are pairwise different (as many
\* different ones as there are decks).
C2_UniqueIndexKeepsNamesUnique ==
    Cardinality({ LowerCase(store[i].name) : i \in DOMAIN store })
        = Cardinality(DOMAIN store)

\* C6: the name of every stored deck is title-cased: it equals its own
\* title-casing (first character of each space-separated word upper-cased,
\* the rest lower-cased).
C6_StoredNamesTitleCased ==
    \A i \in DOMAIN store : store[i].name = TitleCase(store[i].name)

\* createDeckSchema: the create requests that pass validation
ValidCreateDeckRequest(r) ==
    /\ \A f \in SchemaPaths : f \in DOMAIN r
    /\ \A f \in SchemaPaths : PathValid(f, IF f \in StringPaths THEN trim(r[f]) ELSE r[f])

\* some stored deck has the name, compared case-insensitively
NameTaken(st, name) == \E i \in DOMAIN st : EqualIgnoringCase(st[i].name, name)

\* C3: of the createDeck requests with case-insensitively equal names that have
\* all passed the pre-check, exactly one succeeds: the one that saves while the
\* name is free is answered 201 and its record is stored; one that saves after
\* another of them has succeeded (its record still stored as created) is
\* answered 409 CONFLICT with a message containing 'already exists', never 500,
\* and stores nothing.
WonTheRace(q, p) ==
    /\ q # p
    /\ pc[q] = "done" /\ call[q].op = "create" /\ resp[q].status = 201
    /\ EqualIgnoringCase(call[q].req.name, call[p].req.name)
    /\ resp[q].data.id \in DOMAIN store
    /\ store[resp[q].data.id] = resp[q].data

C3_LateCreateGetsConflict ==
    [][\A p \in Procs :
          (pc[p] = "createSave" /\ Responds(p) /\ ValidCreateDeckRequest(call[p].req))
          => /\ ~NameTaken(store, trim(call[p].req.name))
                => /\ resp'[p].status = 201
                   /\ DOMAIN store' = DOMAIN store \cup {resp'[p].data.id}
                   /\ resp'[p].data.id \notin DOMAIN store
                   /\ store'[resp'[p].data.id] = resp'[p].data
             /\ (\E q \in Procs : WonTheRace(q, p))
                => /\ resp'[p].status = 409
                   /\ resp'[p].error = "CONFLICT"
                   /\ includes(resp'[p].message, "already exists")
                   /\ store' = store]_vars

C3_Witness ==
    \E p \in Procs : \E q \in Procs :
        /\ p # q
        /\ pc[p] = "done" /\ call[p].op = "create" /\ call[p].at = "createSave"
        /\ pc[q] = "done" /\ call[q].op = "create" /\ call[q].at = "createSave"
        /\ EqualIgnoringCase(call[p].req.name, call[q].req.name)
        /\ call[p].req.name # call[q].req.name
        /\ resp[p].status = 409 /\ resp[q].status = 201

\* C4: a createDeck whose name equals the name of a stored deck in any case
\* variant fails with Conflict and leaves the stored decks as they were.
C4_CreateExistingNameConflicts ==
    [][\A p \in SeqProcs :
          ( /\ Responds(p) /\ call'[p].op = "create" /\ call'[p].at # "controller"
            /\ \E i \in DOMAIN store :
                   EqualIgnoringCase(store[i].name, call'[p].req.name) )
          => /\ resp'[p].status = 409
             /\ store' = store]_vars

\* C5: a valid createDeck whose name collides with no stored deck succeeds (201)
\* and adds exactly one record, the one it returns, whose id, createdAt and
\* updatedAt are the server's: the ObjectId generated for it and the time of
\* the save, whatever id, createdAt or updatedAt the request or the entity
\* carries.
C5_CreateUniqueNameSucceeds ==
    [][\A p \in SeqProcs :
          ( /\ Responds(p) /\ call'[p].op = "create"
            /\ ValidCreateDeckRequest(call'[p].req)
            /\ ~NameTaken(store, trim(call'[p].req.name)) )
          => /\ resp'[p].status = 201
             /\ DOMAIN store' = DOMAIN store \cup {nextId}
             /\ nextId \notin DOMAIN store
             /\ store'[nextId] = resp'[p].data
             /\ resp'[p].data.id = nextId
             /\ resp'[p].data.createdAt = now
             /\ resp'[p].data.updatedAt = now]_vars

\* C7: updateDeck of a stored deck fails with Conflict exactly when the request
\* supplies a name different from the deck's current name and another stored
\* deck (one with a different id) has that name case-insensitively.
C7_UpdateConflictOnlyWithOtherDeck ==
    [][\A p \in SeqProcs :
          (Responds(p) /\ call'[p].op = "update" /\ call'[p].id \in DOMAIN store)
          => LET id == call'[p].id
                 request == call'[p].req
             IN  (resp'[p].status = 409)
                 <=> /\ Truthy(request, "name")
                     /\ request.name # store[id].name
                     /\ \E j \in DOMAIN store \ {id} :
                            EqualIgnoringCase(store[j].name, request.name)]_vars

\* C8: updateDeck on an id with no stored deck (a malformed id included) fails
\* with the NotFound error at the existence check, before any write, is answered
\* 404, and leaves the store unchanged; an updateDeck answered with Conflict
\* leaves the store unchanged.
C8_FailedUpdateWritesNothing ==
    [][\A p \in SeqProcs :
          (Responds(p) /\ call'[p].op = "update")
          => /\ call'[p].id \notin DOMAIN store
                => /\ call'[p].at = "findById"
                   /\ out'[p].kind = "error"
                   /\ out'[p].msg = MsgNotFound(call'[p].id)
                   /\ resp'[p].status = 404 /\ resp'[p].error = "NOT_FOUND"
                   /\ store' = store
             /\ resp'[p].status = 409 => store' = store]_vars

C8_Witness ==
    \E p \in SeqProcs :
        /\ pc[p] = "done" /\ call[p].op = "update"
        /\ DOMAIN store # {}
        /\ call[p].id \in ObjectIds \ DOMAIN store
        /\ resp[p].status = 404

\* C9: a successful updateDeck changes, on its target, only fields the request
\* supplies and updatedAt; it leaves every other deck as it was and adds or
\* removes none.
C9_UpdateChangesOnlySuppliedFields ==
    [][\A p \in SeqProcs :
          (Responds(p) /\ call'[p].op = "update" /\ resp'[p].status = 200)
          => LET id == call'[p].id
                 request == call'[p].req
             IN  /\ DOMAIN store' = DOMAIN store
                 /\ \A i \in DOMAIN store \ {id} : store'[i] = store[i]
                 /\ \A f \in DeckFields \ (DOMAIN request \cup {"updatedAt"}) :
                        store'[id][f] = store[id][f]
                 /\ resp'[p].data = store'[id]]_vars

C9_Witness ==
    \E p \in SeqProcs :
        /\ pc[p] = "done" /\ call[p].op = "update" /\ resp[p].status = 200
        /\ DOMAIN call[p].req = {"description"}
        /\ Cardinality(DOMAIN store) = 2
        /\ store[call[p].id].description = call[p].req.description
        /\ store[call[p].id].updatedAt > store[call[p].id].createdAt

\* C10: the id and the createdAt of a stored deck never change while it is
\* stored, whatever an update request carries (id and createdAt included).
C10_IdAndCreatedAtImmutable ==
    [][\A i \in DOMAIN store \cap DOMAIN store' :
          /\ store[i].id = i
          /\ store'[i].id = store[i].id
          /\ store'[i].createdAt = store[i].createdAt]_vars

C10_Witness ==
    \E p \in SeqProcs :
        /\ pc[p] = "done" /\ call[p].op = "update" /\ resp[p].status = 200
        /\ "createdAt" \in DOMAIN call[p].req /\ "id" \in DOMAIN call[p].req
        /\ call[p].req.createdAt # store[call[p].id].createdAt
        /\ call[p].req.id # call[p].id
        /\ store[call[p].id].description = call[p].req.description

\* C11: every successful updateDeck leaves the deck's updatedAt strictly greater
\* than it was before the update, whatever the clock reads when it is applied.
C11_UpdatedAtStrictlyIncreases ==
    [][\A p \in SeqProcs :
          (Responds(p) /\ call'[p].op = "update" /\ resp'[p].status = 200)
          => store'[call'[p].id].updatedAt > store[call'[p].id].updatedAt]_vars

\* C12: deleteDeck of an id with no stored deck is answered 404 NOT_FOUND and
\* leaves the store unchanged; deleteDeck of a stored deck is answered 200,
\* removes exactly that deck, leaves every other deck as it was, and a
\* getDeckById of the id that follows finds nothing (404).
C12_DeleteRemovesExactlyTheDeck ==
    [][\A p \in SeqProcs :
          (Responds(p) /\ call'[p].op = "delete")
          => LET id == call'[p].id
             IN  IF id \notin DOMAIN store
                 THEN /\ resp'[p].status = 404 /\ resp'[p].error = "NOT_FOUND"
                      /\ out'[p].kind = "error"
                      /\ includes(out'[p].msg, "not found")
                      /\ store' = store
                 ELSE /\ resp'[p].status = 200
                      /\ DOMAIN store' = DOMAIN store \ {id}
                      /\ \A i \in DOMAIN store' : store'[i] = store[i]
                      /\ RepoFindById(store', id) = Null
                      /\ ControllerGetDeckById(id, RepoFindById(store', id)).status
                             = 404]_vars

C12_Witness ==
    \E p \in SeqProcs :
        /\ pc[p] = "done" /\ call[p].op = "delete" /\ resp[p].status = 200
        /\ call[p].id \notin DOMAIN store
        /\ DOMAIN store # {}

\* a finished GET /decks of handler p that was answered 200
Listed(p) == pc[p] = "done" /\ call[p].op = "list" /\ resp[p].status = 200

\* text occurs in s, compared case-insensitively
ContainsIgnoringCase(s, text) ==
    \E i \in 1..(Len(s) + 1) : \E j \in (i - 1)..Len(s) :
        EqualIgnoringCase(SubSeq(s, i, j), text)

\* the deck matches every filter parameter the query gives: the enumerations
\* exactly, the booleans by their value, the storage location as a
\* case-insensitive substring
MatchesEveryFilter(deck, query) ==
    \A k \in FilterKeys :
        Truthy(query, k)
        => CASE k \in BooleanFilterKeys -> deck[k] = (query[k] = <<"true">>)
             [] k = "storageLocation" -> ContainsIgnoringCase(deck[k], query[k])
             [] OTHER -> deck[k] = query[k]

\* C13: GET /decks counts a stored deck in total, and returns it (on the one
\* page there is when the limit is not below the total), exactly when the deck
\* matches every filter that is present; an absent filter excludes nothing, and
\* isComplete=false and hasCardSleeves=false are applied.
C13_ListedIffMatchesEveryFilter ==
    \A p \in SeqProcs :
        (pc[p] = "done" /\ call[p].op = "list")
        => LET matching == { i \in DOMAIN store :
                               MatchesEveryFilter(store[i], call[p].query) }
               result == resp[p].data
           IN  /\ resp[p].status = 200
               /\ result.total = Cardinality(matching)
               /\ { result.data[i].id : i \in DOMAIN result.data } \subseteq matching
               /\ (result.page = 1 /\ result.limit >= result.total)
                  => { result.data[i].id : i \in DOMAIN result.data } = matching

\* C14: for the total and the limit L of a listing, L is in 1..100, totalPages
\* is the least n with n * L >= total (ceil(total / L), 0 for total = 0), total
\* is the number of decks the query selects, and the page holds no deck exactly
\* when it lies beyond totalPages.
C14_TotalPagesIsCeiling ==
    \A p \in SeqProcs :
        Listed(p)
        => LET result == resp[p].data
               selected == { i \in DOMAIN store :
                               MatchesQuery(store[i], ControllerFilters(call[p].query)) }
           IN  /\ result.limit \in 1..MaxLimit
               /\ result.total = Cardinality(selected)
               /\ result.totalPages * result.limit >= result.total
               /\ result.totalPages >= 0
               /\ result.totalPages > 0
                  => (result.totalPages - 1) * result.limit < result.total
               /\ (result.data = <<>>) <=> (result.page > result.totalPages)

C14_Witness ==
    \E p \in SeqProcs :
        /\ Listed(p)
        /\ resp[p].data.total = 3 /\ resp[p].data.limit = 2
        /\ resp[p].data.totalPages = 2 /\ resp[p].data.page = 3
        /\ resp[p].data.data = <<>>

\* the integer a parameter text spells
IntegerOf(text) ==
    CASE text = <<"0">> -> 0
      [] text = <<"-", "1">> -> 0 - 1
      [] text = <<"1">> -> 1
      [] text = <<"2">> -> 2
      [] text = <<"3">> -> 3
      [] text = <<"1", "0", "0">> -> 100
      [] text = <<"1", "0", "1">> -> 101

SpellsInteger(query, key) ==
    /\ key \in DOMAIN query
    /\ query[key] \in { <<"0">>, <<"-", "1">>, <<"1">>, <<"2">>, <<"3">>,
                        <<"1", "0", "0">>, <<"1", "0", "1">> }

\* C15: whatever page and limit GET /decks is given, the pagination passed on,
\* and echoed in the response, has page >= 1 and 1 <= limit <= 100; an integer
\* limit outside 1..100 becomes 10, an integer page below 1 becomes 1, and an
\* integer in range is kept.
C15_PaginationClamped ==
    \A p \in SeqProcs :
        Listed(p)
        => LET query == call[p].query
               passed == ControllerPagination(query)
               result == resp[p].data
           IN  /\ passed.page >= 1
               /\ passed.limit >= 1 /\ passed.limit <= 100
               /\ result.page = passed.page /\ result.limit = passed.limit
               /\ SpellsInteger(query, "page")
                  => passed.page = IF IntegerOf(query.page) < 1 THEN 1
                                   ELSE IntegerOf(query.page)
               /\ SpellsInteger(query, "limit")
                  => passed.limit = IF IntegerOf(query.limit) \in 1..100
                                    THEN IntegerOf(query.limit) ELSE 10

C15_Witness ==
    \E p \in SeqProcs :
        /\ Listed(p)
        /\ call[p].query = [page |-> <<"2">>, limit |-> <<"1", "0", "1">>]
        /\ resp[p].data.limit = 10 /\ resp[p].data.page = 2

\* the field and the direction a query asks the listing to be sorted by
RequestedSortBy(query) ==
    IF Truthy(query, "sortBy") THEN query.sortBy ELSE <<"createdAt">>

RequestedAscending(query) ==
    "sortOrder" \in DOMAIN query /\ query.sortOrder = <<"asc">>

\* the ways of listing the decks ids of the store without repetition, ordered
\* by the requested field in the requested direction
OrderedListings(ids, query) ==
    { full \in [1..Cardinality(ids) -> ids] :
        /\ \A i, j \in DOMAIN full : full[i] = full[j] => i = j
        /\ \A i, j \in DOMAIN full :
              i < j => LET a == SortKey(store[full[i]], RequestedSortBy(query))
                           b == SortKey(store[full[j]], RequestedSortBy(query))
                       IN  IF RequestedAscending(query) THEN a <= b ELSE a >= b }

\* the decks selected by the filters of a query
Selected(query) ==
    { i \in DOMAIN store : MatchesQuery(store[i], ControllerFilters(query)) }

DistinctSortKeys(ids, query) ==
    \A i, j \in ids :
        i # j => SortKey(store[i], RequestedSortBy(query))
                 # SortKey(store[j], RequestedSortBy(query))

\* the ids on page pg of a query, sorted in the order `full`
PageIds(query, pg, full) ==
    LET found == RepoFindAll(store, ControllerFilters(query),
                             [ControllerPagination(query) EXCEPT !.page = pg],
                             full).data
    IN  { found[k].id : k \in DOMAIN found }

\* C16: the data of a listing are the decks at positions (page - 1) * limit to
\* (page - 1) * limit + limit - 1 (counted from 0) of the selected decks sorted
\* by the requested field (createdAt by default), ascending only for sortOrder
\* 'asc' and descending otherwise; there are at most limit of them; and when
\* the sort keys are distinct every selected deck is on exactly one of the
\* pages 1..totalPages.
C16_PageIsWindowOfSortedDecks ==
    \A p \in SeqProcs :
        Listed(p)
        => LET query == call[p].query
               result == resp[p].data
               first == (result.page - 1) * result.limit
               n == Cardinality(Selected(query))
               rest == IF n > first THEN n - first ELSE 0
           IN  /\ Len(result.data) <= result.limit
               /\ \E full \in OrderedListings(Selected(query), query) :
                     /\ Len(result.data) = IF rest < result.limit THEN rest
                                           ELSE result.limit
                     /\ \A k \in DOMAIN result.data :
                           result.data[k] = store[full[first + k]]
               /\ DistinctSortKeys(Selected(query), query)
                  => \A full \in OrderedListings(Selected(query), query) :
                        \A i \in Selected(query) :
                           Cardinality({ pg \in 1..result.totalPages :
                                           i \in PageIds(query, pg, full) }) = 1

C16_Witness ==
    \E p \in SeqProcs :
        /\ Listed(p)
        /\ call[p].query = [page |-> <<"2">>, limit |-> <<"1">>,
                            sortBy |-> <<"updatedAt">>, sortOrder |-> <<"asc">>]
        /\ { store[i].updatedAt : i \in DOMAIN store } = {0, 1, 2}
        /\ Len(resp[p].data.data) = 1
        /\ resp[p].data.data[1].updatedAt = 1

\* C17: every deck stored after a createDeck or an updateDeck has between 1 and
\* 5 colors; a request whose colors list is empty or longer than 5 is rejected
\* (not answered 2xx) and leaves the store unchanged.
C17_ColorsBetweenOneAndFive ==
    [][\A p \in SeqProcs :
          (Responds(p) /\ call'[p].op \in {"create", "update"})
          => /\ \A i \in DOMAIN store' :
                   Len(store'[i].colors) >= 1 /\ Len(store'[i].colors) <= 5
             /\ ( /\ "colors" \in DOMAIN call'[p].req
                  /\ Len(call'[p].req.colors) \notin 1..5 )
                => /\ resp'[p].status \notin {200, 201}
                   /\ store' = store]_vars

C17_Witness ==
    \E p \in SeqProcs :
        /\ pc[p] = "done" /\ call[p].op = "update"
        /\ call[p].id \in DOMAIN store
        /\ call[p].req = [colors |-> <<"W", "U", "B", "R", "G", "C">>]
        /\ resp[p].status = 500
        /\ store[call[p].id].colors = <<"R">>

\* the fields of a deck the caller supplies, the name apart
SuppliedFields == SchemaPaths \ {"name"}

\* C18: the record a successful createDeck returns is the record stored under
\* the returned id, and its description, colors and storageLocation are the
\* request's values; getDeckById returns the record stored under the id and
\* changes nothing, so that create followed by a fetch of the returned id,
\* with no write to the deck between them, returns the created record.
C18_CreateThenGetRoundTrip ==
    [][\A p \in SeqProcs :
          /\ (Responds(p) /\ call'[p].op = "create" /\ resp'[p].status = 201)
             => LET created == resp'[p].data
                IN  /\ created.id \in DOMAIN store'
                    /\ store'[created.id] = created
                    /\ ControllerGetDeckById(created.id,
                                             RepoFindById(store', created.id)).data
                       = created
                    /\ \A f \in SuppliedFields : created[f] = call'[p].req[f]
          /\ (Responds(p) /\ call'[p].op = "get" /\ resp'[p].status = 200)
             => /\ resp'[p].data = store[call'[p].id]
                /\ store' = store]_vars

\* C19: GET, PUT and DELETE /decks/:id with an id that is not a well-formed
\* ObjectId are answered 400 VALIDATION_ERROR before the use case runs (no
\* storage call is made); 404 is answered only for a well-formed id under
\* which no deck is stored.
C19_MalformedIdRejected ==
    [][\A p \in SeqProcs :
          (Responds(p) /\ call'[p].op \in {"get", "update", "delete"})
          => /\ ~ObjectIdIsValid(call'[p].id)
                => /\ resp'[p].status = 400
                   /\ resp'[p].error = "VALIDATION_ERROR"
                   /\ call'[p].at = "controller"
             /\ resp'[p].status = 404
                => ObjectIdIsValid(call'[p].id) /\ call'[p].id \notin DOMAIN store]_vars

\* C20: POST /decks is answered 400 VALIDATION_ERROR, never 500, and adds no
\* record, for every body that violates a create rule (a mandatory field
\* missing or empty, a colors list that is empty or too long); an answer 201
\* carries the record that was stored, and an answer 409 is a CONFLICT that
\* stored nothing.  (Which valid bodies get 201 and which 409 is stated by
\* C5_CreateUniqueNameSucceeds and C4_CreateExistingNameConflicts.)
C20_CreateStatusCodes ==
    [][\A p \in SeqProcs :
          (Responds(p) /\ call'[p].op = "create")
          => /\ ~ValidCreateDeckRequest(call'[p].req)
                => /\ resp'[p].status = 400
                   /\ resp'[p].error = "VALIDATION_ERROR"
                   /\ store' = store
             /\ resp'[p].status = 201
                => /\ resp'[p].data.id \in DOMAIN store'
                   /\ store'[resp'[p].data.id] = resp'[p].data
             /\ resp'[p].status = 409
                => resp'[p].error = "CONFLICT" /\ store' = store]_vars

(***************************************************************************)
(* The text search and the listing of incomplete decks.  $text splits the  *)
(* keyword and the indexed fields into words and compares them without     *)
(* regard to case; a deck is found when one of the keyword's words is one  *)
(* of its words.  (Stemming and stop words are left out: the words of the  *)
(* model are neither.)  The text index weighs name 3 and description 1.    *)
(***************************************************************************)
Words(text) ==
    LET ws == split(LowerCase(text)) IN { ws[i] : i \in DOMAIN ws } \ { <<>> }

\* { $meta: 'textScore' }, up to the order it induces
TextScore(deck, keyword) ==
    (IF Words(keyword) \cap Words(deck.name) # {} THEN 3 ELSE 0)
    + (IF Words(keyword) \cap Words(deck.description) # {} THEN 1 ELSE 0)

\* MongoDeckRepository.searchByKeyword
RepoSearchByKeyword(st, keyword) ==
    { Value(found) :
        found \in { f \in FoundOrders(st, { i \in DOMAIN st :
                                              TextScore(st[i], keyword) > 0 }) :
                      \A i \in DOMAIN f : \A j \in DOMAIN f :
                          i < j => TextScore(f[i], keyword) >= TextScore(f[j], keyword) } }

\* MongoDeckRepository.findIncompleteDecks: find({ isComplete: false }).  Of a
\* deck whose isComplete the model does not follow, either value is possible.
RepoFindIncompleteDecks(st) ==
    LET known == { i \in DOMAIN st : "isComplete" \in DOMAIN st[i] }
        incomplete == { i \in known : ~st[i].isComplete }
    IN  { Value(found) :
            found \in UNION { FoundOrders(st, incomplete \cup others) :
                                others \in SUBSET (DOMAIN st \ known) } }

\* GET /decks/search/keyword?keyword=...; NoKeyword is a request without one
NoKeyword == <<>>
SearchDecks(p, keyword) ==
    /\ pc[p] = "idle"
    /\ LET c == [op |-> "search", keyword |-> keyword]
       IN  IF keyword = NoKeyword
           THEN Respond(p, "controller", c, NoOut,
                        Response(400, "VALIDATION_ERROR",
                                 <<"Search keyword is required">>, NoDeck))
           ELSE \E o \in RepoSearchByKeyword(store, keyword) :
                    Respond(p, "searchByKeyword", c, o, ControllerDeckList(o))
    /\ UNCHANGED <<store, nextId, now>>

\* GET /decks/filter/incomplete
GetIncompleteDecks(p) ==
    /\ pc[p] = "idle"
    /\ \E o \in RepoFindIncompleteDecks(store) :
          Respond(p, "findIncompleteDecks", [op |-> "incomplete"], o,
                  ControllerDeckList(o))
    /\ UNCHANGED <<store, nextId, now>>

\* the keywords of the searches: none, a word of a name, a word of a
\* description, two words, and a word no deck has
Keywords == { NoKeyword, <<"a">>, <<"X">>, <<"a", " ", "x">>, <<"t">> }

(***************************************************************************)
(* Every handler of the deck routes, one request at a time.  A handler     *)
(* that awaits a storage call goes on when the call completes: each        *)
(* storage call that is awaited completes (weak fairness of the step that  *)
(* follows it).  Nothing obliges a client to send a request.               *)
(***************************************************************************)
NextAnswer ==
    \E p \in SeqProcs :
        \/ Handler(p, RaceCreateDeckRequests, RaceUpdateDeckRequests)
        \/ \E query \in RaceQueries : FindAllFind(p, query)
        \/ FindAllCount(p)
        \/ \E query \in RaceQueries : FindAllCountFirst(p, query)
        \/ FindAllFindLast(p)
        \/ \E keyword \in Keywords : SearchDecks(p, keyword)
        \/ GetIncompleteDecks(p)
        \/ \E location \in Locations : GetDecksByLocation(p, location)

StorageCompletes ==
    \A p \in SeqProcs :
        /\ WF_vars(CreateSave(p))
        /\ WF_vars(UpdateFindByName(p))
        /\ WF_vars(UpdateWrite(p))
        /\ WF_vars(DeleteWrite(p))
        /\ WF_vars(FindAllCount(p))
        /\ WF_vars(FindAllFindLast(p))

SpecAnswer == Init /\ [][NextAnswer]_vars /\ StorageCompletes

\* a PUT request that fails validation: a field it supplies is empty or
\* breaks its rule
InvalidUpdateDeckRequest(r) ==
    \E f \in DOMAIN r \cap SchemaPaths :
        ~PathValid(f, IF f \in StringPaths THEN trim(r[f]) ELSE r[f])

\* C21: PUT /decks/:id answers each kind of failure with its own status: 404
\* NOT_FOUND when no deck is stored under the id, 409 CONFLICT when the use
\* case reports that the name already exists (whatever text the name holds),
\* 400 when the request fails validation; and nothing else is answered 404 or
\* 409.
C21_UpdateFailureStatus ==
    [][\A p \in SeqProcs :
          (Responds(p) /\ call'[p].op = "update")
          => /\ call'[p].id \notin DOMAIN store
                => resp'[p].status = 404 /\ resp'[p].error = "NOT_FOUND"
             /\ ( /\ call'[p].id \in DOMAIN store
                  /\ out'[p].kind = "error"
                  /\ "name" \in DOMAIN call'[p].req
                  /\ out'[p].msg = MsgAlreadyExists(call'[p].req.name) )
                => resp'[p].status = 409 /\ resp'[p].error = "CONFLICT"
             /\ ( /\ call'[p].id \in DOMAIN store
                  /\ InvalidUpdateDeckRequest(call'[p].req) )
                => resp'[p].status = 400
             /\ resp'[p].status = 404 => call'[p].id \notin DOMAIN store]_vars

\* C22: every response with status 500 is the same body, whatever the text of
\* the failure behind it: message 'Internal server error', error
\* INTERNAL_ERROR and no data, so the failure's own message is not in it.
C22_InternalErrorIsGeneric ==
    \A p \in SeqProcs :
        (pc[p] = "done" /\ resp[p].status = 500)
        => /\ resp[p].message = <<"Internal server error">>
           /\ resp[p].error = "INTERNAL_ERROR"
           /\ resp[p].data = NoDeck
           /\ out[p].kind = "error" /\ resp[p].message # out[p].msg

C22_Witness ==
    \E p \in SeqProcs :
        /\ pc[p] = "done" /\ call[p].op = "update" /\ resp[p].status = 500
        /\ out[p].msg = MsgFailedTo("update deck", MsgValidationFailed)
        /\ resp[p].message = <<"Internal server error">>

\* C23: a storageLocation filter, given to GET /decks or as the :location of
\* GET /decks/location/:location, never makes the query fail and selects
\* exactly the decks whose storageLocation contains the filter text as a
\* literal substring, compared case-insensitively (together with the other
\* filters of the query, for GET /decks).
C23_StorageLocationLiteralSubstring ==
    \A p \in SeqProcs :
        /\ ( /\ pc[p] = "done" /\ call[p].op = "list"
             /\ Truthy(call[p].query, "storageLocation") )
           => /\ resp[p].status = 200
              /\ resp[p].data.total
                 = Cardinality({ i \in DOMAIN store :
                                   MatchesEveryFilter(store[i], call[p].query) })
        /\ (pc[p] = "done" /\ call[p].op = "location")
           => /\ resp[p].status = 200
              /\ { resp[p].data.data[k].id : k \in DOMAIN resp[p].data.data }
                 = { i \in DOMAIN store :
                       ContainsIgnoringCase(store[i].storageLocation,
                                            call[p].location) }

\* the argument is missing, empty or only whitespace
BlankArgument(arguments, f) ==
    f \notin DOMAIN arguments \/ trim(arguments[f]) = <<>>

NoColors(arguments) ==
    "colors" \notin DOMAIN arguments \/ Len(arguments.colors) = 0

\* the message the constructor must throw for the arguments, NoMsg for none
ExpectedEntityError(arguments) ==
    IF BlankArgument(arguments, "name") THEN <<"Deck name", " is required">>
    ELSE IF BlankArgument(arguments, "description")
        THEN <<"Deck description", " is required">>
    ELSE IF NoColors(arguments) THEN <<"At least one color is required">>
    ELSE IF BlankArgument(arguments, "storageLocation")
        THEN <<"Storage location", " is required">>
    ELSE NoMsg

\* C24: new DeckEntity(...) throws exactly when name, description or
\* storageLocation is missing, empty or only whitespace or colors is missing or
\* empty, with the message of the first violated check in the order name,
\* description, colors, storageLocation; otherwise it yields the entity with
\* the arguments as its fields.
C24_ConstructorValidates ==
    [][\A p \in SeqProcs :
          (pc[p] = "idle" /\ pc'[p] = "held")
          => LET arguments == call'[p].req
             IN  IF ExpectedEntityError(arguments) # NoMsg
                 THEN /\ out'[p].kind = "error"
                      /\ out'[p].msg = ExpectedEntityError(arguments)
                      /\ out'[p].data = NoDeck
                 ELSE /\ out'[p].kind = "value"
                      /\ \A f \in SchemaPaths : out'[p].data[f] = arguments[f]
                      /\ out'[p].data.createdAt = now
                      /\ out'[p].data.updatedAt = now]_vars

C24_Witness ==
    \E p \in SeqProcs :
        /\ pc[p] = "held" /\ call[p].op = "new"
        /\ call[p].req = [name |-> <<"x">>, description |-> <<"x">>,
                          colors |-> <<>>, storageLocation |-> <<" ">>]
        /\ out[p].kind = "error"
        /\ out[p].msg = <<"At least one color is required">>

\* C25: a DeckEntity.updateDeck that throws leaves the entity as it was before
\* the call (no field assigned, updatedAt unchanged), so the entity a caller
\* holds satisfies the constructor's validation rules after every updateDeck.
C25_FailedUpdateLeavesEntity ==
    [][\A p \in SeqProcs :
          (pc[p] = "held" /\ pc'[p] = "held" /\ call'[p].op = "updateDeck")
          => /\ out'[p].kind = "error" => out'[p].data = out[p].data
             /\ validateDeck(out'[p].data) = NoMsg]_vars

\* C26: a deleteDeck that passed its existence check is answered 200, removing
\* the deck, when the deck is still stored at its delete, and 404 NOT_FOUND,
\* changing nothing, when a concurrent deleteDeck removed the deck in between;
\* it is never answered 500, and no two requests are answered 200 for the
\* deletion of one id.
C26_ConcurrentDeletesOneSuccess ==
    [][\A p \in Procs :
          (pc[p] = "deleteWrite" /\ pc'[p] = "done")
          => LET id == call'[p].id
             IN  /\ IF id \in DOMAIN store
                    THEN /\ resp'[p].status = 200
                         /\ DOMAIN store' = DOMAIN store \ {id}
                    ELSE /\ resp'[p].status = 404 /\ resp'[p].error = "NOT_FOUND"
                         /\ store' = store
                 /\ \A q \in Procs \ {p} :
                       ( /\ pc[q] = "done" /\ call[q].op = "delete"
                         /\ call[q].id = id /\ resp[q].status = 200 )
                       => resp'[p].status = 404]_vars

C26_Witness ==
    \E p \in Procs : \E q \in Procs :
        /\ p # q
        /\ pc[p] = "done" /\ call[p].op = "delete" /\ call[p].at = "deleteWrite"
        /\ pc[q] = "done" /\ call[q].op = "delete" /\ call[q].at = "deleteWrite"
        /\ call[p].id = call[q].id
        /\ resp[p].status = 200 /\ resp[q].status = 404

\* handler p is at the write of an updateDeck that passed its existence check
AtUpdateWrite(p) == pc[p] = "updateWrite" /\ pc'[p] = "done"

\* C27: an updateDeck whose target was deleted between its existence check and
\* its write writes nothing, leaves no record under the id, and is answered 404
\* NOT_FOUND, not 200 and not 500.
C27_DeletedDeckNotResurrected ==
    [][\A p \in Procs :
          (AtUpdateWrite(p) /\ call'[p].id \notin DOMAIN store)
          => /\ store' = store
             /\ call'[p].id \notin DOMAIN store'
             /\ resp'[p].status = 404 /\ resp'[p].error = "NOT_FOUND"]_vars

\* C28: an updateDeck of a stored deck that supplies valid fields other than
\* the name succeeds whatever update runs concurrently with it: it is answered
\* 200, the deck carries its values afterwards, and every field it does not
\* supply (updatedAt apart) keeps the value it had just before the write, so
\* the values written by a concurrent update of other fields are still there.
C28_NoLostUpdate ==
    [][\A p \in Procs :
          ( /\ AtUpdateWrite(p) /\ call'[p].id \in DOMAIN store
            /\ "name" \notin DOMAIN call'[p].req
            /\ ~InvalidUpdateDeckRequest(call'[p].req) )
          => LET id == call'[p].id
                 request == CastToSchema(call'[p].req)
             IN  /\ resp'[p].status = 200
                 /\ id \in DOMAIN store'
                 /\ \A f \in DOMAIN request : store'[id][f] = request[f]
                 /\ \A f \in DeckFields \ (DOMAIN request \cup {"updatedAt"}) :
                       store'[id][f] = store[id][f]]_vars

C28_Witness ==
    \E p \in Procs : \E q \in Procs :
        /\ p # q
        /\ pc[p] = "done" /\ call[p] = [op |-> "update", at |-> "updateWrite", id |-> 1,
                                        req |-> [description |-> <<"y">>]]
        /\ pc[q] = "done" /\ call[q] = [op |-> "update", at |-> "updateWrite", id |-> 1,
                                        req |-> [storageLocation |-> <<"t">>]]
        /\ resp[p].status = 200 /\ resp[q].status = 200
        /\ store[1].description = <<"y">> /\ store[1].storageLocation = <<"t">>

\* C29: the page GET /decks returns is consistent with one state of the store,
\* also beside createDeck and deleteDeck requests: total is the number of decks
\* that satisfied the query in the state data was read from, so data holds no
\* more decks than total, and a page that holds a deck is not beyond
\* totalPages.
C29_PageConsistentWithOneState ==
    \A p \in Procs :
        (pc[p] = "done" /\ call[p].op = "list" /\ resp[p].status = 200)
        => LET result == resp[p].data
           IN  /\ result.total = call[p].seen
               /\ Len(result.data) <= result.total
               /\ result.data # <<>> => result.page <= result.totalPages

\* C30: every handler answers its request exactly once.  A response is written
\* only by the step in which the handler ends, a handler that has ended writes
\* nothing more (its response stays until the promise settles), and, each
\* storage call completing, a request that has been received is eventually
\* answered with a status.
C30_ExactlyOneResponse ==
    /\ [][\A p \in SeqProcs :
             /\ resp'[p] # resp[p]
                => \/ pc[p] # "done" /\ pc'[p] = "done" /\ resp[p] = NoResp
                   \/ pc[p] = "done" /\ pc'[p] = "idle" /\ resp'[p] = NoResp
             /\ (pc[p] # "done" /\ pc'[p] = "done") => resp'[p].status # 0
             /\ (pc[p] = "idle" /\ pc'[p] = "idle") => call'[p] = NoCall]_vars
    /\ \A p \in SeqProcs :
           (call[p] # NoCall) ~> (pc[p] = "done" /\ resp[p].status # 0)

\* a request whose use case threw at an awaited storage call has been
\* answered
C30_Witness ==
    \E p \in SeqProcs :
        /\ pc[p] = "done"
        /\ call[p].op = "update"
        /\ call[p].at = "updateWrite"
        /\ out[p].kind = "error"
        /\ resp[p].status = 500

====
